---- MODULE Spec2Model ----
(***************************************************************************)
(* Model of stock_analysis.py: main() fetches one year of daily bars for   *)
(* every listed code through a thread pool, merges the results in          *)
(* completion order, builds a training table with                          *)
(* calculate_technical_indicators / preprocess_data, fits a classifier,    *)
(* screens every stored code with it and ranks the candidates.             *)
(*                                                                         *)
(* Numbers.  Closes are integers.  A cell of a frame is a record           *)
(* [k, n, d]: k = "nan" (pandas NaN), k = "num" the rational n/d (floating *)
(* point rounding is not modelled), k = "val" a defined finite number      *)
(* whose magnitude is not modelled (the EMA based MACD and the standard    *)
(* deviation of the bands, which are not rationals of bounded size).       *)
(***************************************************************************)
EXTENDS Integers, Sequences, FiniteSets, TLC

\* ------------------------------------------------------------------ bounds
\* Number of listed codes in the universe of the run.
NumCodes == 2

\* ------------------------------------------------------- program constants
\* trading_days < 30, tail(30), rolling(window=30)
MinTradingDays == 30
\* pd.Timedelta(days=60)
LookbackDays == 60
\* rolling(window=5), rolling(window=20), rolling(window=14)
MA5Window == 5
MA20Window == 20
RSIWindow == 14
\* if len(df) > 20
MinRows == 20
\* sorted(...)[:20]
TopN == 20

\* ------------------------------------------------------------------ cells
NaN == [k |-> "nan", n |-> 0, d |-> 1]
Val == [k |-> "val", n |-> 0, d |-> 1]
Num(a, b) == [k |-> "num", n |-> a, d |-> b]
IsNaN(c) == c.k = "nan"
\* equality of two defined rationals
NumEq(c, a, b) == c.k = "num" /\ c.n * b = a * c.d

RECURSIVE SumRange(_, _, _)
\* sum of f[lo..hi]
SumRange(f, lo, hi) == IF lo > hi THEN 0 ELSE f[hi] + SumRange(f, lo, hi - 1)

\* Series.rolling(window=w) at position t (1-based): NaN until w values exist
RollingSum(f, w, t) == IF t < w THEN NaN ELSE Num(SumRange(f, t - w + 1, t), 1)
RollingMean(f, w, t) == IF t < w THEN NaN ELSE Num(SumRange(f, t - w + 1, t), w)

\* ----------------------------------------------------------------- frames
\* A fetched DataFrame: cols = "ohlcv" when the Date/Close columns exist,
\* rows = bars [idx, Date, Close]; idx is the RangeIndex label given by
\* reset_index, Date a day number.
RECURSIVE InsertByDate(_, _)
\* r goes behind every row whose date is not later than its own
InsertByDate(sorted, r) ==
  IF sorted = <<>> THEN <<r>>
  ELSE IF sorted[Len(sorted)].Date <= r.Date THEN Append(sorted, r)
  ELSE Append(InsertByDate(SubSeq(sorted, 1, Len(sorted) - 1), r), sorted[Len(sorted)])

RECURSIVE SortByDate(_)
\* df.sort_values(by='Date')
SortByDate(rows) ==
  IF rows = <<>> THEN <<>>
  ELSE InsertByDate(SortByDate(SubSeq(rows, 1, Len(rows) - 1)), rows[Len(rows)])

\* df['Date'].drop_duplicates().count()
TradingDays(rows) == Cardinality({rows[j].Date : j \in 1..Len(rows)})

RECURSIVE MaxDateUpTo(_, _)
MaxDateUpTo(rows, j) ==
  IF j = 1 THEN rows[1].Date
  ELSE LET m == MaxDateUpTo(rows, j - 1)
       IN IF rows[j].Date > m THEN rows[j].Date ELSE m
\* df['Date'].max()
MaxDate(rows) == MaxDateUpTo(rows, Len(rows))

\* df[df['Date'] >= df['Date'].max() - pd.Timedelta(days=60)]
RecentRows(rows) ==
  LET first == MaxDate(rows) - LookbackDays
  IN SelectSeq(rows, LAMBDA r : r.Date >= first)

RECURSIVE DropDuplicateDates(_)
\* drop_duplicates(subset='Date'): the first row of every date is kept
DropDuplicateDates(rows) ==
  IF rows = <<>> THEN <<>>
  ELSE LET init == SubSeq(rows, 1, Len(rows) - 1)
           last == rows[Len(rows)]
       IN IF \E j \in 1..Len(init) : init[j].Date = last.Date
          THEN DropDuplicateDates(init)
          ELSE Append(DropDuplicateDates(init), last)

\* tail(30)
TailRows(rows, n) ==
  IF Len(rows) <= n THEN rows ELSE SubSeq(rows, Len(rows) - n + 1, Len(rows))

\* df_last_30_days
Last30(rows) == TailRows(DropDuplicateDates(RecentRows(rows)), MinTradingDays)

\* delta = Close.diff(); the first row has no delta (NaN), which the users
\* of Delta treat on their own (t > 1, t = 1)
Delta(w, t) == IF t = 1 THEN 0 ELSE w[t].Close - w[t - 1].Close
\* delta.where(delta > 0, 0): the NaN of the first row is not > 0, so it is 0
GainAt(w, t) == IF t > 1 /\ Delta(w, t) > 0 THEN Delta(w, t) ELSE 0
\* -delta.where(delta < 0, 0)
LossAt(w, t) == IF t > 1 /\ Delta(w, t) < 0 THEN 0 - Delta(w, t) ELSE 0

Gains(w) == [t \in 1..Len(w) |-> GainAt(w, t)]
Losses(w) == [t \in 1..Len(w) |-> LossAt(w, t)]
Closes(w) == [t \in 1..Len(w) |-> w[t].Close]

\* gain = (...).rolling(window=14).mean(), as the window sum (mean = sum/14)
AvgGain(gains, t) == RollingSum(gains, RSIWindow, t)
AvgLoss(losses, t) == RollingSum(losses, RSIWindow, t)

\* rs = gain / loss ; RSI = 100 - (100 / (1 + rs)), in IEEE arithmetic:
\*   x/0 with x > 0 is inf and 100/(1+inf) is 0, so RSI is 100;
\*   0/0 is NaN and stays NaN; NaN operands give NaN.
RSI(g, l) ==
  IF IsNaN(g) \/ IsNaN(l) THEN NaN
  ELSE IF l.n = 0 THEN (IF g.n = 0 THEN NaN ELSE Num(100, 1))
  ELSE Num(100 * g.n, g.n + l.n)

\* ewm(span=12).mean() - ewm(span=26).mean(): defined at every row, since
\* adjust=False seeds the average with the first close
MACD(w, t) == Val

\* MA30 +/- 2 * Close.rolling(window=30).std(): defined once 30 rows exist
Band(ma30) == IF IsNaN(ma30) THEN NaN ELSE Val

\* Close.diff() as a cell
PriceChange(w, t) == IF t = 1 THEN NaN ELSE Num(Delta(w, t), 1)

IndicatorRow(w, closes, gains, losses, t) ==
  LET ma30 == RollingMean(closes, MinTradingDays, t)
  IN [idx |-> w[t].idx, Date |-> w[t].Date, Close |-> w[t].Close,
      MA5 |-> RollingMean(closes, MA5Window, t),
      MA20 |-> RollingMean(closes, MA20Window, t),
      MA30 |-> ma30,
      RSI |-> RSI(AvgGain(gains, t), AvgLoss(losses, t)),
      MACD |-> MACD(w, t),
      UpperBand |-> Band(ma30),
      LowerBand |-> Band(ma30),
      PriceChange |-> PriceChange(w, t)]

\* calculate_technical_indicators(df), on the rows already sorted in place:
\* ind = FALSE is the early return of the frame without indicator columns.
calculate_technical_indicators(rows) ==
  IF TradingDays(rows) < MinTradingDays
  THEN [ind |-> FALSE, rows |-> rows]
  ELSE LET w == Last30(rows)
           closes == Closes(w)
           gains == Gains(w)
           losses == Losses(w)
       IN [ind |-> TRUE,
           rows |-> [t \in 1..Len(w) |-> IndicatorRow(w, closes, gains, losses, t)]]

\* ---------------------------------------------------------------- inputs
\* What fdr.DataReader can answer for one code: it raises, or it returns a
\* frame of bars, one per trading day; idx is the row label reset_index gives.
Bar(t, day, close) == [idx |-> t - 1, Date |-> day, Close |-> close]
\* bars on consecutive days, closes base+1, base+2, base, base+1, ... :
\* rises and falls alternate
ZigBars(base, n) == [t \in 1..n |-> Bar(t, t, base + (t % 3))]
\* every close above the one before
RisingBars(base, n) == [t \in 1..n |-> Bar(t, t, base + t)]
\* a constant close
FlatBars(base, n) == [t \in 1..n |-> Bar(t, t, base)]
\* the same bars as ZigBars, delivered latest day first
ReversedBars(base, n) == [t \in 1..n |-> Bar(t, n + 1 - t, base + ((n + 1 - t) % 3))]
\* trading was suspended: old bars, then n bars inside the last 60 days
SuspendedBars(base, old, n) ==
  [t \in 1..(old + n) |->
     LET day == IF t <= old THEN t ELSE t + 100 IN Bar(t, day, base + (day % 3))]

LongFrames ==
  {[cols |-> "ohlcv", rows |-> ZigBars(10, 31)],
   [cols |-> "ohlcv", rows |-> RisingBars(20, 31)],
   [cols |-> "ohlcv", rows |-> FlatBars(10, 30)],
   [cols |-> "ohlcv", rows |-> ReversedBars(10, 31)],
   [cols |-> "ohlcv", rows |-> SuspendedBars(10, 10, 25)]}
ShortFrames == {[cols |-> "ohlcv", rows |-> ZigBars(10, n)] : n \in {20, 25}}
\* a payload without the Date and Close columns
MalformedFrame == [cols |-> "malformed", rows |-> ZigBars(10, 31)]
\* an empty payload (df.empty)
EmptyFrame == [cols |-> "ohlcv", rows |-> <<>>]
NoFrame == [cols |-> "none", rows |-> <<>>]

Responses ==
  {[kind |-> "raise", df |-> NoFrame]}
    \cup {[kind |-> "frame", df |-> f] :
            f \in LongFrames \cup ShortFrames \cup {MalformedFrame, EmptyFrame}}

\* ----------------------------------------------------------- the universe
Codes == 1..NumCodes
Markets == <<"KOSPI", "KOSDAQ">>
\* fdr.StockListing(market)['Code'].tolist(): the codes are split over the
\* two markets, every code listed once
MarketCodes(m) ==
  IF m = 1 THEN {c \in Codes : c <= (NumCodes + 1) \div 2}
  ELSE {c \in Codes : c > (NumCodes + 1) \div 2}

NoError == [kind |-> "none", code |-> 0]
Raised(kind, code) == [kind |-> kind, code |-> code]

VARIABLES
  pc,               \* where main() is
  market,           \* index of the market the listing loop is at
  status,           \* per code, its future: unsubmitted, running, hung, done
  result,           \* per code, what its future holds once done
  yielded,          \* codes whose future as_completed has handed to main()
  all_stocks_data,  \* the dict code -> frame, in insertion order
  failed,           \* codes logged as failed by the merge loop
  error,            \* the exception that ended (is ending) the run
  i,                \* position of the preprocess / screening loop
  all_features,     \* preprocess_data: rows of the X frames appended so far
  all_targets,      \* preprocess_data: rows of the y series appended so far
  X_all,            \* the training table
  y_all,            \* its labels
  model,            \* the classifier: fitted or not, and its predict function
  scored,           \* the vectors handed to model.predict, in order
  potential_stocks, \* (code, last close) of every code predicted to rise
  top_stocks,       \* the ranked candidates
  tpc,              \* model_trainer.py: where prepare_data() is
  stock_table,      \* the table read from the CSV: how many stocks of each kind
  y,                \* prepare_data: the labels, as the number of rows per class
  y_resampled,      \* the labels handed to the split, per class
  trainer_log,      \* what prepare_data logged about the balancing
  partition,        \* sizes of the parts the two splits made
  trainer_error     \* the exception that ended prepare_data

vars == <<pc, market, status, result, yielded, all_stocks_data, failed, error, i,
          all_features, all_targets, X_all, y_all, model, scored,
          potential_stocks, top_stocks, tpc, stock_table, y, y_resampled,
          trainer_log, partition, trainer_error>>

mainVars == <<pc, market, status, result, yielded, all_stocks_data, failed, error, i,
              all_features, all_targets, X_all, y_all, model, scored,
              potential_stocks, top_stocks>>
trainerVars == <<tpc, stock_table, y, y_resampled, trainer_log, partition,
                 trainer_error>>
fetchVars == <<status, result>>
mergeVars == <<yielded, all_stocks_data, failed>>
trainVars == <<all_features, all_targets, X_all, y_all, model>>
screenVars == <<scored, potential_stocks, top_stocks>>

Pending == [kind |-> "pending", code |-> 0, df |-> NoFrame]

\* main() of stock_analysis.py has not started
MainIdle ==
  /\ pc = "listing"
  /\ market = 1
  /\ status = [c \in Codes |-> "unsubmitted"]
  /\ result = [c \in Codes |-> Pending]
  /\ yielded = {}
  /\ all_stocks_data = <<>>
  /\ failed = {}
  /\ error = NoError
  /\ i = 1
  /\ all_features = <<>>
  /\ all_targets = <<>>
  /\ X_all = <<>>
  /\ y_all = <<>>
  /\ model = [fitted |-> FALSE, predict |-> <<>>]
  /\ scored = <<>>
  /\ potential_stocks = <<>>
  /\ top_stocks = <<>>

NoClasses == [cls \in {0, 1} |-> 0]
NoParts == [train |-> 0, temp |-> 0, valid |-> 0, test |-> 0]
\* model_trainer.py is not running
TrainerIdle ==
  /\ tpc = "idle"
  /\ stock_table = [kind \in {"short", "calm", "swing"} |-> 0]
  /\ y = NoClasses
  /\ y_resampled = NoClasses
  /\ trainer_log = <<>>
  /\ partition = NoParts
  /\ trainer_error = NoError

Init == MainIdle /\ TrainerIdle

\* ------------------------------------------------------------ the listing
\* a handler that notes the error and goes on with the next market
StockListingSkipped(m) ==
  [pc |-> IF m = Len(Markets) THEN "merging" ELSE "listing", market |-> m + 1,
   error |-> Raised("UniverseUnavailable", 0)]
\* StockListing raises inside the with block: nothing catches it, so the
\* executor is shut down and the exception leaves main().
StockListingRaises(m) ==
  [pc |-> "shutdown", market |-> m, error |-> Raised("UniverseUnavailable", 0)]

\* One turn of "for market in markets": the listing answers and every code of
\* the market is submitted to the pool.  The pool has 20 workers
\* (max_workers=20), more than the codes of the universe here, so a submitted
\* fetch starts at once.
ListAndSubmit ==
  /\ pc = "listing"
  /\ status' = [c \in Codes |->
                  IF c \in MarketCodes(market) THEN "running" ELSE status[c]]
  /\ market' = market + 1
  /\ pc' = IF market = Len(Markets) THEN "merging" ELSE "listing"
  /\ UNCHANGED <<trainerVars, result, mergeVars, error, i, trainVars, screenVars>>

ListingFails ==
  /\ pc = "listing"
  /\ LET r == StockListingRaises(market)
     IN /\ pc' = r.pc
        /\ market' = r.market
        /\ error' = r.error
  /\ UNCHANGED <<trainerVars, fetchVars, mergeVars, i, trainVars, screenVars>>

\* ------------------------------------------------------------ the workers
\* fetch_stock_data(code, ...) given what DataReader does: an exception is
\* not caught; a non-empty frame gets its Code column and is returned; an
\* empty one gives (code, None).
fetch_stock_data(code, resp) ==
  IF resp.kind = "raise" THEN [kind |-> "exc", code |-> code, df |-> NoFrame]
  ELSE IF resp.df.rows # <<>> THEN [kind |-> "ok", code |-> code, df |-> resp.df]
  ELSE [kind |-> "none", code |-> code, df |-> NoFrame]

FetchReturn(c) ==
  /\ status[c] = "running"
  /\ \E resp \in Responses :
       result' = [result EXCEPT ![c] = fetch_stock_data(c, resp)]
  /\ status' = [status EXCEPT ![c] = "done"]
  /\ UNCHANGED <<trainerVars, pc, market, mergeVars, error, i, trainVars, screenVars>>

\* DataReader never returns: the call has no timeout, the worker stays in it.
FetchHang(c) ==
  /\ status[c] = "running"
  /\ status' = [status EXCEPT ![c] = "hung"]
  /\ UNCHANGED <<trainerVars, pc, market, result, mergeVars, error, i, trainVars, screenVars>>

\* --------------------------------------------------------- the merge loop
Keys(d) == {d[j].code : j \in 1..Len(d)}

\* all_stocks_data[code] = data: a new key is appended, a known key keeps its
\* place and gets the new value
MergeInto(d, code, df) ==
  IF code \in Keys(d)
  THEN [j \in 1..Len(d) |-> IF d[j].code = code THEN [code |-> code, df |-> df] ELSE d[j]]
  ELSE Append(d, [code |-> code, df |-> df])

\* One turn of "for future in as_completed(futures)": any finished future
\* not handed out yet; future.result() raises what the worker raised.
MergeStep(c) ==
  /\ pc = "merging"
  /\ status[c] = "done"
  /\ c \notin yielded
  /\ yielded' = yielded \cup {c}
  /\ LET r == result[c]
     IN /\ pc' = IF r.kind = "exc" THEN "shutdown" ELSE pc
        /\ error' = IF r.kind = "exc" THEN Raised("FetchError", r.code) ELSE error
        /\ all_stocks_data' =
             IF r.kind = "ok" THEN MergeInto(all_stocks_data, r.code, r.df)
             ELSE all_stocks_data
        /\ failed' = IF r.kind = "none" THEN failed \cup {r.code} ELSE failed
  /\ UNCHANGED <<trainerVars, market, fetchVars, i, trainVars, screenVars>>

\* as_completed is exhausted: the with block ends, every future is done.
MergeDone ==
  /\ pc = "merging"
  /\ yielded = Codes
  /\ pc' = "preprocess"
  /\ i' = 1
  /\ UNCHANGED <<trainerVars, market, fetchVars, mergeVars, error, trainVars, screenVars>>

\* An exception leaves the with block: ThreadPoolExecutor.__exit__ waits for
\* every submitted future (shutdown(wait=True)), then main() raises.
ExecutorShutdown ==
  /\ pc = "shutdown"
  /\ \A c \in Codes : status[c] \in {"unsubmitted", "done"}
  /\ pc' = "aborted"
  /\ UNCHANGED <<trainerVars, market, fetchVars, mergeVars, error, i, trainVars, screenVars>>

\* ------------------------------------------------- indicators of one entry
\* df = calculate_technical_indicators(df) on a stored frame: err names the
\* KeyError of a frame without a Date column, rows the frame as sort_values
\* (inplace=True) leaves it in the dict, frame what the call returns.
Analyse(df) ==
  IF df.cols # "ohlcv"
  THEN [err |-> "KeyError", rows |-> df.rows, frame |-> [ind |-> FALSE, rows |-> <<>>]]
  ELSE LET sorted == SortByDate(df.rows)
       IN [err |-> "none", rows |-> sorted,
           frame |-> calculate_technical_indicators(sorted)]

Features(r) == <<r.MA5, r.MA20, r.RSI, r.MACD, r.UpperBand, r.LowerBand>>

\* X.isnull().values.any()
HasNaN(x) == \E j \in 1..Len(x) : IsNaN(x[j])

\* a NaN test that looks at the first feature only
FirstIsNaN(X_new) == IsNaN(X_new[1])
\* np.isnan(X_new).any()
np_isnan_any(X_new) == \E j \in 1..Len(X_new) : IsNaN(X_new[j])

HasNaNRows(X) == {j \in 1..Len(X) : HasNaN(X[j].x)} # {}

\* X = df[features] and y = df['Target'] of one code;
\* Target = np.where(df['Price Change'] > 0, 1, 0), and NaN > 0 is False
XRows(code, rows) ==
  [t \in 1..Len(rows) |-> [code |-> code, idx |-> rows[t].idx, x |-> Features(rows[t])]]
Target(r) == IF r.PriceChange.k = "num" /\ r.PriceChange.n > 0 THEN 1 ELSE 0
YRows(code, rows) ==
  [t \in 1..Len(rows) |-> [code |-> code, idx |-> rows[t].idx, Target |-> Target(rows[t])]]

SetRows(d, j, rows) ==
  [d EXCEPT ![j] = [code |-> d[j].code, df |-> [cols |-> d[j].df.cols, rows |-> rows]]]

\* One turn of the loop of preprocess_data
PreprocessStep ==
  /\ pc = "preprocess"
  /\ i <= Len(all_stocks_data)
  /\ \E a \in {Analyse(all_stocks_data[i].df)} :
     LET e == all_stocks_data[i]
         enough == Len(a.frame.rows) > MinRows
         bad == a.err # "none" \/ (enough /\ ~a.frame.ind)
     IN /\ all_stocks_data' = SetRows(all_stocks_data, i, a.rows)
        /\ pc' = IF bad THEN "aborted" ELSE pc
        /\ error' = IF bad THEN Raised("KeyError", e.code) ELSE error
        /\ i' = IF bad THEN i ELSE i + 1
        /\ all_features' = IF ~bad /\ enough
                           THEN all_features \o XRows(e.code, a.frame.rows)
                           ELSE all_features
        /\ all_targets' = IF ~bad /\ enough
                          THEN all_targets \o YRows(e.code, a.frame.rows)
                          ELSE all_targets
  /\ UNCHANGED <<trainerVars, market, fetchVars, yielded, failed, X_all, y_all, model, screenVars>>

\* X_all = pd.concat(all_features): ValueError when no frame was appended
PreprocessConcat ==
  /\ pc = "preprocess"
  /\ i > Len(all_stocks_data)
  /\ pc' = IF all_features = <<>> THEN "aborted" ELSE "train"
  /\ error' = IF all_features = <<>> THEN Raised("ValueError", 0) ELSE error
  /\ X_all' = all_features
  /\ y_all' = all_targets
  /\ all_features' = <<>>
  /\ all_targets' = <<>>
  /\ UNCHANGED <<trainerVars, market, fetchVars, mergeVars, i, model, screenVars>>

\* ---------------------------------------------------------------- training
\* The vectors the screening loop can hand to the classifier
LatestVectors(d) ==
  {x \in {Features(a.frame.rows[Len(a.frame.rows)]) :
            a \in {b \in {Analyse(d[j].df) : j \in 1..Len(d)} :
                     b.frame.ind /\ Len(b.frame.rows) > MinRows}} : ~np_isnan_any(x)}

\* train_test_split, model.fit, evaluate_model: the fitted forest is some
\* function from feature vectors to the classes 0 and 1
TrainModel ==
  /\ pc = "train"
  /\ \E f \in [LatestVectors(all_stocks_data) -> {0, 1}] :
       model' = [fitted |-> TRUE, predict |-> f]
  /\ pc' = "screen"
  /\ i' = 1
  /\ UNCHANGED <<trainerVars, market, fetchVars, mergeVars, error, all_features, all_targets,
                 X_all, y_all, screenVars>>

\* scikit-learn before 1.4 refuses a table with NaN: fit raises ValueError
FitRaises ==
  /\ pc = "train"
  /\ HasNaNRows(X_all)
  /\ pc' = "aborted"
  /\ error' = Raised("ValueError", 0)
  /\ UNCHANGED <<trainerVars, market, fetchVars, mergeVars, i, trainVars, screenVars>>

\* --------------------------------------------------------------- screening
\* One turn of the screening loop of main()
ScreenStep ==
  /\ pc = "screen"
  /\ i <= Len(all_stocks_data)
  /\ \E a \in {Analyse(all_stocks_data[i].df)} :
     LET e == all_stocks_data[i]
         enough == Len(a.frame.rows) > MinRows
         bad == a.err # "none" \/ (enough /\ ~a.frame.ind)
         last_row == a.frame.rows[Len(a.frame.rows)]
         X_new == Features(last_row)
         score == ~bad /\ enough /\ ~np_isnan_any(X_new)
     IN /\ all_stocks_data' = SetRows(all_stocks_data, i, a.rows)
        /\ pc' = IF bad THEN "aborted" ELSE pc
        /\ error' = IF bad THEN Raised("KeyError", e.code) ELSE error
        /\ i' = IF bad THEN i ELSE i + 1
        /\ scored' = IF score THEN Append(scored, [code |-> e.code, x |-> X_new])
                     ELSE scored
        /\ potential_stocks' =
             IF score /\ model.predict[X_new] = 1
             THEN Append(potential_stocks, [code |-> e.code, Close |-> last_row.Close])
             ELSE potential_stocks
  /\ UNCHANGED <<trainerVars, market, fetchVars, yielded, failed, trainVars, top_stocks>>

RECURSIVE InsertByCloseDesc(_, _)
InsertByCloseDesc(sorted, x) ==
  IF sorted = <<>> THEN <<x>>
  ELSE IF Head(sorted).Close >= x.Close
       THEN <<Head(sorted)>> \o InsertByCloseDesc(Tail(sorted), x)
       ELSE <<x>> \o sorted

RECURSIVE SortedByCloseDesc(_)
\* sorted(potential_stocks, key=lambda x: x[1], reverse=True): the sort is
\* stable, entries with equal closes keep the order of potential_stocks
SortedByCloseDesc(s) ==
  IF s = <<>> THEN <<>>
  ELSE InsertByCloseDesc(SortedByCloseDesc(SubSeq(s, 1, Len(s) - 1)), s[Len(s)])

\* ...[:20]
Truncate(s, n) == IF Len(s) <= n THEN s ELSE SubSeq(s, 1, n)

Rank ==
  /\ pc = "screen"
  /\ i > Len(all_stocks_data)
  /\ top_stocks' = Truncate(SortedByCloseDesc(potential_stocks), TopN)
  /\ pc' = "done"
  /\ UNCHANGED <<trainerVars, market, fetchVars, mergeVars, error, i, trainVars, scored,
                 potential_stocks>>

Next ==
  \/ ListAndSubmit
  \/ ListingFails
  \/ \E c \in Codes : FetchReturn(c)
  \/ \E c \in Codes : FetchHang(c)
  \/ \E c \in Codes : MergeStep(c)
  \/ MergeDone
  \/ ExecutorShutdown
  \/ PreprocessStep
  \/ PreprocessConcat
  \/ TrainModel
  \/ FitRaises
  \/ ScreenStep
  \/ Rank

Spec == Init /\ [][Next]_vars

\* ===================================================== model_trainer.py
\* prepare_data(df). The table read from the CSV is kept as the number of
\* stocks of each kind; a row of X is kept by its label alone, since the
\* balancing and the splits are settled by the class counts.
MaxStocks == 7
MaxShort == 1
TargetWindow == 11
RisePct == 129
SmoteKNeighbors == 5
TestSize == 30
TempTestSize == 50

StockKinds == {"short", "calm", "swing"}
\* the rows a stock of the kind has in the table, and the lowest Low and the
\* highest High of its last 11 rows
StockData(kind) ==
  IF kind = "short" THEN [rows |-> 10, Low |-> 100, High |-> 130]
  ELSE IF kind = "calm" THEN [rows |-> 12, Low |-> 100, High |-> 120]
  ELSE [rows |-> 11, Low |-> 100, High |-> 130]
StockTables ==
  {[kind \in StockKinds |-> IF kind = "short" THEN s ELSE IF kind = "calm" THEN a ELSE b] :
     s \in 0..MaxShort, a \in 0..MaxStocks, b \in 0..MaxStocks}

\* len(df[df['Code'] == stock_code].tail(11))
TailLen(kind) ==
  IF StockData(kind).rows <= TargetWindow THEN StockData(kind).rows ELSE TargetWindow
\* target_today = 1 if high_price > low_price * 1.29 else 0
target_today(kind) ==
  IF StockData(kind).High * 100 > StockData(kind).Low * RisePct THEN 1 ELSE 0
RECURSIVE CountStocks(_, _)
CountStocks(table, kinds) ==
  IF kinds = {} THEN 0
  ELSE LET kind == CHOOSE k \in kinds : TRUE
       IN table[kind] + CountStocks(table, kinds \ {kind})
\* y after the loop over df['Code'].unique(): one label per stock whose tail
\* has 11 rows
Labels(table) ==
  [cls \in {0, 1} |->
     CountStocks(table, {kind \in StockKinds :
                           TailLen(kind) = TargetWindow /\ target_today(kind) = cls})]
\* len(y)
NumRows(lbl) == lbl[0] + lbl[1]
\* np.unique(y)
Unique(lbl) == {cls \in {0, 1} : lbl[cls] > 0}
Majority(lbl) == IF lbl[0] >= lbl[1] THEN lbl[0] ELSE lbl[1]
\* SMOTE(random_state=42).fit_resample(X, y) grows every class but the largest
\* to the size of the largest, each synthetic row made between a row of the
\* class and one of its k_neighbors = 5 nearest rows of the class: the
\* neighbour query asks for 6 rows and raises ValueError when the class has
\* fewer.
SmoteFails(lbl) ==
  \E cls \in Unique(lbl) : lbl[cls] < Majority(lbl) /\ lbl[cls] <= SmoteKNeighbors
fit_resample(lbl) == [cls \in {0, 1} |-> IF lbl[cls] > 0 THEN Majority(lbl) ELSE 0]

Ceil(num, den) == (num + den - 1) \div den
\* train_test_split(..., test_size=pct/100): n_test = ceil(test_size * n),
\* n_train = n - n_test; ValueError when the table is empty or n_train = 0
SplitSizes(num, pct) ==
  LET n_test == Ceil(num * pct, 100) IN [train |-> num - n_test, test |-> n_test]
SplitFails(num, pct) == num = 0 \/ SplitSizes(num, pct).train = 0

TrainerInit ==
  /\ MainIdle
  /\ tpc = "prepare"
  /\ stock_table \in StockTables
  /\ y = NoClasses
  /\ y_resampled = NoClasses
  /\ trainer_log = <<>>
  /\ partition = NoParts
  /\ trainer_error = NoError

\* lines 91-112: the loop that fills X and y, and the class counts logged
BuildTable ==
  /\ tpc = "prepare"
  /\ y' = Labels(stock_table)
  /\ tpc' = "balance"
  /\ UNCHANGED <<mainVars, stock_table, y_resampled, trainer_log, partition, trainer_error>>
\* np.bincount(y) on the float array np.array([]) of a table with no eligible
\* stock: numpy builds that refuse the cast to integers raise TypeError
BincountRaises ==
  /\ tpc = "prepare"
  /\ NumRows(Labels(stock_table)) = 0
  /\ tpc' = "aborted"
  /\ trainer_error' = Raised("TypeError", 112)
  /\ UNCHANGED <<mainVars, stock_table, y, y_resampled, trainer_log, partition>>
\* lines 115-125: more than one class, SMOTE resamples the whole table
Oversample ==
  /\ tpc = "balance"
  /\ Cardinality(Unique(y)) > 1
  /\ ~SmoteFails(y)
  /\ y_resampled' = fit_resample(y)
  /\ trainer_log' = Append(trainer_log, "info: SMOTE applied")
  /\ tpc' = "split"
  /\ UNCHANGED <<mainVars, stock_table, y, partition, trainer_error>>
\* line 118 raises: nothing in prepare_data or its caller catches it
OversampleRaises ==
  /\ tpc = "balance"
  /\ Cardinality(Unique(y)) > 1
  /\ SmoteFails(y)
  /\ tpc' = "aborted"
  /\ trainer_error' = Raised("ValueError", 118)
  /\ UNCHANGED <<mainVars, stock_table, y, y_resampled, trainer_log, partition>>
\* lines 126-129: a single class (or none), the table is passed on as it is
SkipOversample ==
  /\ tpc = "balance"
  /\ Cardinality(Unique(y)) <= 1
  /\ y_resampled' = y
  /\ trainer_log' = Append(trainer_log, "warning: one class, SMOTE skipped")
  /\ tpc' = "split"
  /\ UNCHANGED <<mainVars, stock_table, y, partition, trainer_error>>
\* lines 132-134: train against the rest
SplitTrain ==
  /\ tpc = "split"
  /\ ~SplitFails(NumRows(y_resampled), TestSize)
  /\ LET sizes == SplitSizes(NumRows(y_resampled), TestSize)
     IN partition' = [partition EXCEPT !.train = sizes.train, !.temp = sizes.test]
  /\ tpc' = "split_temp"
  /\ UNCHANGED <<mainVars, stock_table, y, y_resampled, trainer_log, trainer_error>>
\* lines 138-140: the rest into validation and test
SplitTemp ==
  /\ tpc = "split_temp"
  /\ ~SplitFails(partition.temp, TempTestSize)
  /\ LET sizes == SplitSizes(partition.temp, TempTestSize)
     IN partition' = [partition EXCEPT !.valid = sizes.train, !.test = sizes.test]
  /\ tpc' = "done"
  /\ UNCHANGED <<mainVars, stock_table, y, y_resampled, trainer_log, trainer_error>>
\* either train_test_split raises ValueError
SplitRaises ==
  /\ \/ tpc = "split" /\ SplitFails(NumRows(y_resampled), TestSize)
        /\ trainer_error' = Raised("ValueError", 132)
     \/ tpc = "split_temp" /\ SplitFails(partition.temp, TempTestSize)
        /\ trainer_error' = Raised("ValueError", 138)
  /\ tpc' = "aborted"
  /\ UNCHANGED <<mainVars, stock_table, y, y_resampled, trainer_log, partition>>

TrainerNext ==
  \/ BuildTable
  \/ BincountRaises
  \/ Oversample
  \/ OversampleRaises
  \/ SkipOversample
  \/ SplitTrain
  \/ SplitTemp
  \/ SplitRaises

TrainerSpec == TrainerInit /\ [][TrainerNext]_vars

\* ================================================================ claims
CodesOf(s) == {s[j].code : j \in 1..Len(s)}
\* the merge loop has ended and nothing ran after it
BatchDone == pc = "preprocess" /\ i = 1
\* the fetch of c failed: it raised, gave nothing, or gave a malformed frame
FetchFailed(c) ==
  \/ result[c].kind \in {"exc", "none"}
  \/ (result[c].kind = "ok" /\ result[c].df.cols # "ohlcv")
Stored(c) == \E j \in 1..Len(all_stocks_data) : all_stocks_data[j].code = c
Entry(c) == all_stocks_data[CHOOSE j \in 1..Len(all_stocks_data) :
                               all_stocks_data[j].code = c]

\* C1: a failing fetch (an exception, an empty payload, a malformed payload)
\* never aborts the run; once the batch is done every failing code is
\* recorded as failed and absent from the store, every other code is stored.
C1_FailureIsolation ==
  /\ error.kind # "FetchError"
  /\ \A c \in Codes :
       ~(error.kind = "KeyError" /\ error.code = c /\ FetchFailed(c))
  /\ BatchDone =>
       \A c \in Codes : IF FetchFailed(c) THEN c \in failed /\ ~Stored(c)
                        ELSE Stored(c)

\* C2: once the merge loop is over (as_completed exhausted, or the loop left
\* by the exception of a future) and every fetch has returned,
\* all_stocks_data holds exactly the codes whose fetch succeeded, once each,
\* every code with the frame its own future returned, and no failed code, so
\* that its content is the same for every completion order.
C2_KeyedMerge ==
  ((BatchDone \/ (pc \in {"shutdown", "aborted"} /\ error.kind = "FetchError"))
     /\ \A c \in Codes : status[c] = "done") =>
    /\ CodesOf(all_stocks_data) = {c \in Codes : ~FetchFailed(c)}
    /\ Len(all_stocks_data) = Cardinality(CodesOf(all_stocks_data))
    /\ \A j \in 1..Len(all_stocks_data) :
         all_stocks_data[j].df = result[all_stocks_data[j].code].df

\* C3: a fetch that never returns does not stall the batch: while main() is
\* in the merge loop and some worker is stuck in its fetch, a step is still
\* possible (another future completes or is merged, the stuck one is given
\* up as failed, the loop ends).
C3_BatchNeverStalls ==
  (pc = "merging" /\ \E c \in Codes : status[c] = "hung") => ENABLED Next

\* C4: the ranked list is ordered by last close descending, equal closes by
\* code ascending, and holds the first 20 candidates.
C4_DeterministicRanking ==
  pc = "done" =>
    /\ \A j, k \in 1..Len(top_stocks) :
         j < k => \/ top_stocks[j].Close > top_stocks[k].Close
                  \/ /\ top_stocks[j].Close = top_stocks[k].Close
                     /\ top_stocks[j].code < top_stocks[k].code
    /\ Len(top_stocks) = IF Len(potential_stocks) < TopN THEN Len(potential_stocks)
                         ELSE TopN

\* C5: a stored code with fewer than 30 distinct trading days does not end
\* preprocess_data or the screening loop, gives the training table no row and
\* is never a candidate.
C5_InsufficientHistoryRecovered ==
  \A j \in 1..Len(all_stocks_data) :
    LET e == all_stocks_data[j]
    IN (e.df.cols = "ohlcv" /\ TradingDays(e.df.rows) < MinTradingDays) =>
         /\ ~(error.kind = "KeyError" /\ error.code = e.code)
         /\ e.code \notin CodesOf(all_features) \cup CodesOf(X_all)
         /\ e.code \notin CodesOf(potential_stocks) \cup CodesOf(top_stocks)

\* the latest feature vector of an analysed frame has an undefined value
\* (or the frame has no indicator column at all)
LatestUndefined(a) ==
  \/ a.err # "none"
  \/ ~a.frame.ind
  \/ a.frame.rows = <<>>
  \/ LET x == Features(a.frame.rows[Len(a.frame.rows)])
     IN \E j \in 1..Len(x) : x[j].k = "nan"

\* C6: a code whose latest feature vector has an undefined value is never
\* handed to the classifier and never a candidate, and every vector handed to
\* the classifier is the code's latest vector as computed, without any NaN
\* (so none was replaced by a number).
C6_ScreeningFailsClosed ==
  scored = <<>> \/
    /\ \A j \in 1..Len(all_stocks_data) :
         \E a \in {Analyse(all_stocks_data[j].df)} :
           LET c == all_stocks_data[j].code
           IN /\ LatestUndefined(a) =>
                   c \notin CodesOf(scored) \cup CodesOf(potential_stocks)
                               \cup CodesOf(top_stocks)
              /\ \A k \in 1..Len(scored) :
                   scored[k].code = c =>
                     scored[k].x = Features(a.frame.rows[Len(a.frame.rows)])
    /\ \A k \in 1..Len(scored) :
         /\ \A f \in 1..Len(scored[k].x) : scored[k].x[f].k # "nan"
         /\ Stored(scored[k].code)
    /\ CodesOf(potential_stocks) \subseteq CodesOf(scored)
    /\ CodesOf(top_stocks) \subseteq CodesOf(potential_stocks)

\* the screening loop ran to its end over a store with a code whose latest
\* vector is undefined, and scored another code
C6_Witness ==
  /\ pc = "done"
  /\ scored # <<>>
  /\ \E j \in 1..Len(all_stocks_data) :
       LatestUndefined(Analyse(all_stocks_data[j].df))

\* C7: no row of the training table has an undefined feature.
C7_NoUndefinedInTraining ==
  \A j \in 1..Len(X_all) : \A k \in 1..Len(X_all[j].x) : X_all[j].x[k].k # "nan"

\* C8: the label of a training row at bar t is 1 exactly when the close of
\* bar t+1 is above the close of bar t (rows whose bar has a successor in the
\* stored series).
C8_NextBarLabel ==
  \A j \in 1..Len(y_all) :
    LET rows == Entry(y_all[j].code).df.rows
    IN \A t \in 1..(Len(rows) - 1) :
         rows[t].idx = y_all[j].idx =>
           y_all[j].Target = IF rows[t + 1].Close > rows[t].Close THEN 1 ELSE 0

\* C9: in the training table, at every bar that has its full 14 bar window
\* and an average loss of 0, RSI is 50 when the average gain is 0 too and 100
\* when it is positive.
C9_RSIZeroLossPolicy ==
  \A j \in 1..Len(X_all) :
    LET w == Last30(Entry(X_all[j].code).df.rows)
    IN \A t \in RSIWindow..Len(w) :
         (w[t].idx = X_all[j].idx /\ AvgLoss(Losses(w), t).n = 0) =>
            NumEq(X_all[j].x[3], IF AvgGain(Gains(w), t).n = 0 THEN 50 ELSE 100, 1)

\* C10: once StockListing has failed the run never goes on: main() is leaving
\* (waiting for the pool, then raising the error), nothing was merged, no
\* table was built, no model fitted, no candidate found or ranked.
C10_UniverseFailureIsFatal ==
  error.kind = "UniverseUnavailable" =>
    /\ pc \in {"shutdown", "aborted"}
    /\ all_stocks_data = <<>>
    /\ X_all = <<>>
    /\ ~model.fitted
    /\ scored = <<>>
    /\ potential_stocks = <<>>
    /\ top_stocks = <<>>

\* the second listing failed after the first market's fetches were submitted
\* and had finished, and main() has raised
C10_Witness ==
  /\ pc = "aborted"
  /\ error.kind = "UniverseUnavailable"
  /\ \E c \in Codes : status[c] = "done" /\ result[c].kind = "ok"

\* prepare_data is past the balancing step (lines 115-129)
PastBalance == tpc \in {"split", "split_temp", "done"} \/ (tpc = "aborted" /\ trainer_error.code > 112)
Warned == \E k \in 1..Len(trainer_log) : trainer_log[k] = "warning: one class, SMOTE skipped"
Oversampled == \E k \in 1..Len(trainer_log) : trainer_log[k] = "info: SMOTE applied"
\* C11: in prepare_data, labels of more than one class are oversampled over
\* the whole table before any split, leaving both classes with equal counts
\* and the splits partitioning the balanced table; labels of a single class
\* skip the oversampling with a warning, are passed on unchanged, and the
\* split still runs to completion.
C11_BalanceBeforeSplit ==
  /\ (PastBalance /\ Cardinality(Unique(y)) > 1) =>
        /\ Oversampled /\ ~Warned
        /\ y_resampled[0] = y_resampled[1]
        /\ tpc = "split" => partition = NoParts
        /\ tpc \in {"split_temp", "done"} =>
              partition.train + partition.temp = NumRows(y_resampled)
        /\ tpc = "done" =>
              partition.train + partition.valid + partition.test = NumRows(y_resampled)
  /\ (PastBalance /\ Cardinality(Unique(y)) = 1) =>
        /\ Warned /\ ~Oversampled
        /\ y_resampled = y
        /\ tpc # "aborted"

\* the series as calculate_technical_indicators leaves it behind
AfterCall(df) == [cols |-> df.cols, rows |-> Analyse(df).rows]
\* a second invocation on a stored series returns the frame the first returned
SameFrameTwice ==
  \A j \in 1..Len(all_stocks_data) :
    \E a \in {Analyse(all_stocks_data[j].df)} :
      a.err = "none" => Analyse(AfterCall(all_stocks_data[j].df)).frame = a.frame
\* C12: calculate_technical_indicators leaves the series it is given
\* unchanged (no step of preprocess_data or of the screening loop changes a
\* stored series), and two successive invocations on the same stored series
\* return identical frames.
C12_IndicatorsPure ==
  [][/\ pc \in {"preprocess", "screen"} => all_stocks_data' = all_stocks_data
     /\ SameFrameTwice]_vars
====
